---- MODULE Spec2Model ----
(***************************************************************************)
(* musictl: the CUE-sheet driven import pipeline.                          *)
(*                                                                         *)
(*   CueSplitter.parse_cue / split_audio / _convert_time / find_cue_files  *)
(*   Controller.import_tracks / _log_import / _extract_metadata            *)
(*                                                                         *)
(* Three specifications:                                                   *)
(*   SpecParse  parse_cue applied to every CUE text of at most MaxLines    *)
(*              lines over the line alphabet CueLine;                      *)
(*   SpecCalls  _convert_time, the track-number formatting of              *)
(*              _extract_metadata and _extract_from_filename, each applied *)
(*              to every argument of a bounded set;                        *)
(*   Spec       import_tracks run (and re-run) on a source directory,      *)
(*              one action per step of the method.                         *)
(***************************************************************************)
EXTENDS Integers, Sequences, FiniteSets, TLC

\* ------------------------------------------------------------------ bounds
\* Longest CUE text, in lines, that SpecParse parses.
MaxLines == 5
\* Most files the source directory holds when import_tracks is first called.
MaxFiles == 3
\* Most distinct filesystem / transcoder operations that fail.
MaxFaults == 1
\* Number of consecutive invocations of import_tracks.
MaxRuns == 2
\* Longest track-number tag, in characters, that SpecCalls formats.
MaxTagLen == 5
\* Longest file stem, in characters, that SpecCalls resolves.
MaxNameLen == 6

\* ------------------------------------------------------- text abstractions
\* A field of a time code that int() cannot parse ("xx").
NaN == -1

\* f"{n:02d}"
Fmt02(n) == IF n < 10 THEN "0" \o ToString(n) ELSE ToString(n)

\* A time code text is the sequence of its colon-separated fields; the
\* absent end_time (None) is the empty sequence.
NoTime == << >>

\* One stripped line of a CUE text, by the prefix parse_cue tests:
\*   "TRACK "      n  = int(second word), NaN when it is no integer
\*   "TITLE "      s  = the value with its quotes stripped
\*   "PERFORMER "  s  likewise
\*   "INDEX 01 "   tc = the rest of the line
\*   "INDEX 00 "   tc likewise (any INDEX number other than 01)
\*   "REM"         a line with none of these prefixes
CueLn(kw, n, s, tc) == [kw |-> kw, n |-> n, s |-> s, tc |-> tc]
LnTrack(n) == CueLn("TRACK", n, "", NoTime)
LnTitle(s) == CueLn("TITLE", 0, s, NoTime)
LnPerformer(s) == CueLn("PERFORMER", 0, s, NoTime)
LnIndex01(tc) == CueLn("INDEX 01", 0, "", tc)
LnIndex00(tc) == CueLn("INDEX 00", 0, "", tc)
LnRem == CueLn("REM", 0, "", NoTime)

\* ------------------------------------------------ CueSplitter.parse_cue
\* First loop: album title and artist from the lines before the first TRACK.
RECURSIVE AlbumScan(_, _, _, _)
AlbumScan(lines, i, album, artist) ==
    IF i > Len(lines) \/ lines[i].kw = "TRACK"
    THEN [album |-> album, artist |-> artist]
    ELSE IF lines[i].kw = "TITLE" /\ album = "Unknown Album"
    THEN AlbumScan(lines, i + 1, lines[i].s, artist)
    ELSE IF lines[i].kw = "PERFORMER" /\ artist = "Unknown Artist"
    THEN AlbumScan(lines, i + 1, album, lines[i].s)
    ELSE AlbumScan(lines, i + 1, album, artist)

\* The dict a TRACK line starts.
NewTrack(n, artist) ==
    [number |-> n, title |-> "Track " \o ToString(n), performer |-> artist,
     start_time |-> <<0, 0, 0>>]

\* Second loop: cur is the current track dict (<<d>>) or None (<< >>).
\* int() of a TRACK line's number raises ValueError when it is no integer.
RECURSIVE TrackScan(_, _, _, _, _)
TrackScan(lines, i, artist, tracks, cur) ==
    IF i > Len(lines)
    THEN [ok |-> TRUE, tracks |-> tracks \o cur]
    ELSE LET l == lines[i] IN
         IF l.kw = "TRACK"
         THEN IF l.n = NaN
              THEN [ok |-> FALSE, tracks |-> << >>]
              ELSE TrackScan(lines, i + 1, artist, tracks \o cur,
                             <<NewTrack(l.n, artist)>>)
         ELSE IF cur # << >> /\ l.kw = "TITLE"
         THEN TrackScan(lines, i + 1, artist, tracks,
                        <<[cur[1] EXCEPT !.title = l.s]>>)
         ELSE IF cur # << >> /\ l.kw = "PERFORMER"
         THEN TrackScan(lines, i + 1, artist, tracks,
                        <<[cur[1] EXCEPT !.performer = l.s]>>)
         ELSE IF cur # << >> /\ l.kw = "INDEX 01"
         THEN TrackScan(lines, i + 1, artist, tracks,
                        <<[cur[1] EXCEPT !.start_time = l.tc]>>)
         ELSE TrackScan(lines, i + 1, artist, tracks, cur)

\* The CueTrack objects: end_time is the next dict's start_time.
CueTracks(tracks, album) ==
    [i \in 1..Len(tracks) |->
        [number |-> tracks[i].number, title |-> tracks[i].title,
         performer |-> tracks[i].performer,
         start_time |-> tracks[i].start_time,
         end_time |-> IF i + 1 <= Len(tracks)
                      THEN tracks[i + 1].start_time ELSE NoTime,
         album |-> album]]

ParseFailed == [ok |-> FALSE, artist |-> "", album |-> "", tracks |-> << >>]

\* parse_cue(cue_file) on the file's lines.  An empty file reads as "", and
\* `if not content` raises ValueError for it.
ParseCue(lines) ==
    IF lines = << >>
    THEN ParseFailed
    ELSE LET head == AlbumScan(lines, 1, "Unknown Album", "Unknown Artist")
             scan == TrackScan(lines, 1, head.artist, << >>, << >>)
         IN IF ~scan.ok
            THEN ParseFailed
            ELSE [ok |-> TRUE, artist |-> head.artist, album |-> head.album,
                  tracks |-> CueTracks(scan.tracks, head.album)]

\* --------------------------------------------- CueSplitter._convert_time
\* The parts of a time code that map(int, parts) accepts.
IntParsable(tc) == \A i \in 1..Len(tc) : tc[i] # NaN

\* _convert_time: [raises, kind, v]; kind "hms" is HH:MM:SS.mmm as
\* <<hours, minutes, seconds, milliseconds>>, kind "raw" the text unchanged.
ConvertTime(tc) ==
    IF Len(tc) = 3
    THEN IF ~IntParsable(tc)
         THEN [raises |-> TRUE, kind |-> "raw", v |-> tc]
         ELSE LET milliseconds == (tc[3] * 1000) \div 75
                  total_seconds == tc[1] * 60 + tc[2]
              IN [raises |-> FALSE, kind |-> "hms",
                  v |-> <<total_seconds \div 3600,
                          (total_seconds % 3600) \div 60,
                          total_seconds % 60, milliseconds>>]
    ELSE [raises |-> FALSE, kind |-> "raw", v |-> tc]

\* --------------------------------------------------- CueSplitter helpers
\* Strings that hold one of the characters < > : " / \ | ? * ; every other
\* string of the model holds none of them.
Hostile(s) == s \in {"a/b"}

\* _sanitize_filename: re.sub(r'[<>:"/\\|?*]', '_', filename).strip()
SanitizeFilename(s) == IF s = "a/b" THEN "a_b" ELSE s

\* ------------------------------------------------------------ filesystem
\* A path is [dir, stem, ext]: dir "src" is the source directory, "tmp<k>"
\* the directory the k-th invocation's tempfile.mkdtemp() returns.
Path(dir, stem, ext) == [dir |-> dir, stem |-> stem, ext |-> ext]
Name(p) == p.stem \o p.ext
TmpDirOf(k) == "tmp" \o ToString(k)

AlbumCue == Path("src", "album", ".cue")
AlbumFlac == Path("src", "album", ".flac")
SideCue == Path("src", "side", ".cue")
FileX == Path("src", "x", ".mp3")
FileY == Path("src", "y", ".mp3")

\* The files a source directory can hold, in the order glob()/rglob() yield
\* them.
AaaFlac == Path("src", "aaa", ".flac")
AlbumWav == Path("src", "album", ".wav")
SideApe == Path("src", "side", ".ape")
ZzzWav == Path("src", "zzz", ".wav")
DirOrder == <<AaaFlac, AlbumCue, AlbumFlac, AlbumWav, SideCue, SideApe,
              FileX, FileY, ZzzWav>>
\* The files the source directory of import_tracks can hold.
Universe == {AlbumCue, AlbumFlac, SideCue, FileX, FileY}
Listing(S) == SelectSeq(DirOrder, LAMBDA f : f \in S)

\* What a file holds: a source file holds itself, an extracted file the
\* k-th track's range of its album audio.
DataOf(f) == Name(f)
TrackData(audio_file, k) == Name(audio_file) \o "#" \o ToString(k)

Range(seq) == {seq[i] : i \in 1..Len(seq)}
EmptyMap == [x \in {} |-> ""]
Without(m, x) == [y \in DOMAIN m \ {x} |-> m[y]]

\* ---------------------------------------------- Config (default config)
MusicDirs == {"collection", "inbox", "dj"}
MusicExtensions == {".mp3", ".flac", ".wav", ".ogg", ".m4a"}

\* ------------------------------------------ CueSplitter.find_cue_files
AudioExts == <<".flac", ".wav", ".ape">>

\* "Try exact match first": the first extension whose same-stem file exists.
RECURSIVE ExactMatch(_, _, _)
ExactMatch(S, cue_file, i) ==
    IF i > Len(AudioExts) THEN << >>
    ELSE IF Path(cue_file.dir, cue_file.stem, AudioExts[i]) \in S
    THEN <<Path(cue_file.dir, cue_file.stem, AudioExts[i])>>
    ELSE ExactMatch(S, cue_file, i + 1)

\* "look for any audio file in the same directory": the first file of the
\* first extension that has any.
RECURSIVE AnyAudio(_, _)
AnyAudio(S, i) ==
    IF i > Len(AudioExts) THEN << >>
    ELSE LET audio_files == SelectSeq(Listing(S), LAMBDA f : f.ext = AudioExts[i])
         IN IF audio_files # << >> THEN <<audio_files[1]>> ELSE AnyAudio(S, i + 1)

\* A bug: the exact match left out.
CompanionFirstAudio(S, cue_file) == AnyAudio(S, 1)

Companion(S, cue_file) ==
    IF ExactMatch(S, cue_file, 1) # << >>
    THEN ExactMatch(S, cue_file, 1) ELSE AnyAudio(S, 1)

RECURSIVE PairsOf(_, _, _)
PairsOf(S, cues, i) ==
    IF i > Len(cues) THEN << >>
    ELSE (IF Companion(S, cues[i]) # << >>
          THEN <<[cue_file |-> cues[i], audio_file |-> Companion(S, cues[i])[1]]>>
          ELSE << >>) \o PairsOf(S, cues, i + 1)

FindCueFiles(S) == PairsOf(S, SelectSeq(Listing(S), LAMBDA f : f.ext = ".cue"), 1)

\* ---------------------------------------------------------- CUE contents
Tc0 == <<0, 0, 0>>
TcA == <<3, 10, 50>>
TcB == <<7, 2, 30>>
TcBad == <<3, NaN, 50>>

SheetHead == <<LnPerformer("P"), LnTitle("Alb")>>
\* two tracks, well formed
SheetGood ==
    SheetHead \o <<LnTrack(1), LnTitle("one"), LnIndex01(Tc0),
                   LnTrack(2), LnTitle("two"), LnIndex00(TcA), LnIndex01(TcB)>>
\* the second track's title holds a path separator
SheetSlash ==
    SheetHead \o <<LnTrack(1), LnTitle("one"), LnIndex01(Tc0),
                   LnTrack(2), LnTitle("a/b"), LnIndex01(TcB)>>
\* the second track's INDEX 01 reads 03:xx:50
SheetBadTime ==
    SheetHead \o <<LnTrack(1), LnTitle("one"), LnIndex01(Tc0),
                   LnTrack(2), LnTitle("two"), LnIndex01(TcBad)>>
\* the first track's title holds a path separator
SheetSlashFirst ==
    SheetHead \o <<LnTrack(1), LnTitle("a/b"), LnIndex01(Tc0),
                   LnTrack(2), LnTitle("two"), LnIndex01(TcA)>>
\* an empty file
SheetEmpty == << >>
AlbumSheets == {SheetGood, SheetSlash, SheetSlashFirst, SheetBadTime, SheetEmpty}
\* one track, no title, no INDEX 01
SideSheet == <<LnTrack(7)>>

\* ------------------------------------------------------ tags (mutagen)
\* What mutagen.File(file_path) yields: << >> when it returns None or raises.
NoTags == << >>
\* A text tag (TRCK / TRACKNUMBER) is the sequence of its characters.
TagsX == <<[artist |-> "P", album |-> "Alb", track_num |-> <<"1">>, title |-> "one"]>>

\* ------------------------------------------------------------------ state
VARIABLES
    cue_text,       \* SpecParse: the lines of the CUE file handed to parse_cue
    parsed,         \* SpecParse: << >> before the call, <<result>> after it
    call,           \* SpecCalls: the function called and its argument
    ret,            \* SpecCalls: << >> before the call, <<result>> after it
    target_dir_name,\* import_tracks' first argument, as its "/"-separated tokens
    source_exists,  \* whether source_path.exists()
    ffmpeg_ok,      \* whether `ffmpeg -version` runs
    album_sheet,    \* the lines of album.cue
    y_tags,         \* the tags of y.mp3
    src,            \* the files of the source directory
    dirs,           \* the target directories that exist, as <<root, subdir>>
    tgt,            \* the target year-month directory: file name -> data
    tmp_dirs,       \* the temporary directories that exist
    tmp,            \* the files in temporary directories: path -> data
    log,            \* the import log, a sequence of entries
    fate,           \* operation -> whether it succeeds, once it was tried
    pc,             \* where import_tracks stands
    frame,          \* the local variables of import_tracks
    ghost           \* history: the run number and the state the run started in

parse_vars == <<cue_text, parsed, call, ret>>
\* no function of SpecCalls is being called
NoCall == [fn |-> "", arg |-> << >>]
input_vars == <<target_dir_name, source_exists, ffmpeg_ok, album_sheet, y_tags>>
fs_vars == <<src, dirs, tgt, tmp_dirs, tmp, log>>
vars == <<parse_vars, input_vars, fs_vars, fate, pc, frame, ghost>>

\* The locals of import_tracks before its first statement.  temp_dir "" is
\* None; outcome is how the invocation ended.
InitFrame ==
    [target_path |-> << >>, cue_pairs |-> << >>, temp_extracted_files |-> << >>,
     temp_dir |-> "", response_split |-> "", pair_i |-> 0, tracks |-> << >>,
     album |-> "", trk_i |-> 0, split_files |-> << >>, calls |-> << >>,
     extracted |-> << >>, ren_i |-> 0, all_files |-> << >>, file_i |-> 0,
     processed_count |-> 0, processed_files |-> << >>, skipped |-> << >>,
     response_delete |-> "", del_i |-> 0, exc |-> "", outcome |-> ""]

\* ------------------------------------------------------------- the fates
\* Whether a transcoder run, a copy or an unlink succeeds is a property of
\* what it works on (a corrupt range of the audio, an unwritable file): an
\* operation that was tried once ends the same way whenever it is tried
\* again.  At most MaxFaults distinct operations fail.
NumFaults(ft) == Cardinality({o \in DOMAIN ft : ~ft[o]})
Outcomes(ft, op) ==
    IF op \in DOMAIN ft THEN {ft[op]}
    ELSE IF NumFaults(ft) < MaxFaults THEN {TRUE, FALSE} ELSE {TRUE}
Remember(ft, op, ok) == IF op \in DOMAIN ft THEN ft ELSE ft @@ (op :> ok)

\* ------------------------------------------------- Controller helpers
\* The lines of a CUE file.
Content(cue_file) == IF cue_file = AlbumCue THEN album_sheet ELSE SideSheet

\* The tags mutagen reads from a file.
TagsOf(file_path) ==
    IF file_path = FileX THEN TagsX
    ELSE IF file_path = FileY THEN y_tags ELSE NoTags

\* The source directory is <SourceParent>/<SourceName>.
SourceParent == "Downloads"
SourceName == "rip"

\* ---- texts as sequences of characters
IsDigit(c) == c \in {ToString(d) : d \in 0..9}
DigitVal(c) == CHOOSE d \in 0..9 : ToString(d) = c

RECURSIVE Join(_)
Join(chars) == IF chars = << >> THEN "" ELSE chars[1] \o Join(Tail(chars))

\* int(text) for a text of digits and other characters (no sign, no blank,
\* no underscore): the value, or NaN where int() raises ValueError.
RECURSIVE IntOf(_, _)
IntOf(chars, acc) ==
    IF chars = << >> THEN acc
    ELSE IntOf(Tail(chars), acc * 10 + DigitVal(chars[1]))
ParseInt(chars) ==
    IF chars = << >> \/ \E i \in 1..Len(chars) : ~IsDigit(chars[i])
    THEN NaN ELSE IntOf(chars, 0)

\* text.split(sep)[0] for a one-character sep
RECURSIVE BeforeChar(_, _)
BeforeChar(chars, sep) ==
    IF chars = << >> \/ chars[1] = sep THEN << >>
    ELSE <<chars[1]>> \o BeforeChar(Tail(chars), sep)

\* text.strip(" -")
RECURSIVE LStrip(_)
LStrip(chars) ==
    IF chars # << >> /\ chars[1] \in {" ", "-"} THEN LStrip(Tail(chars)) ELSE chars
RECURSIVE RStrip(_)
RStrip(chars) ==
    IF chars # << >> /\ chars[Len(chars)] \in {" ", "-"}
    THEN RStrip(SubSeq(chars, 1, Len(chars) - 1)) ELSE chars
Strip(chars) == RStrip(LStrip(chars))

\* where " - " first occurs in a text, 0 when it does not
SepAt(chars) ==
    LET at == {i \in 1..Len(chars) - 2 :
                  chars[i] = " " /\ chars[i + 1] = "-" /\ chars[i + 2] = " "}
    IN IF at = {} THEN 0 ELSE CHOOSE i \in at : \A j \in at : i <= j

\* _extract_metadata 224-232: the "/total" suffix cut off, then
\* f"{int(track_num):02d}", "00" when int() raises.
TrackNumOfTag(track_num) ==
    LET cut == IF \E i \in 1..Len(track_num) : track_num[i] = "/"
               THEN BeforeChar(track_num, "/") ELSE track_num
    IN IF ParseInt(cut) = NaN THEN "00" ELSE Fmt02(ParseInt(cut))

\* _extract_from_filename 250-261: track number and title of a file stem.
FilenameFields(filename) ==
    IF Len(filename) >= 2 /\ filename[1] = "0"
       /\ filename[2] \in {ToString(d) : d \in 1..9}
    THEN IF SepAt(filename) # 0
         THEN <<Join(SubSeq(filename, 1, SepAt(filename) - 1)),
                Join(SubSeq(filename, SepAt(filename) + 3, Len(filename)))>>
         ELSE <<Join(SubSeq(filename, 1, 2)),
                Join(Strip(SubSeq(filename, 3, Len(filename))))>>
    ELSE <<"00", Join(filename)>>

\* _extract_from_filename on the characters of file_path.stem; the source
\* directory's name holds no " - ".
ExtractFromStem(filename) == <<SourceParent, SourceName>> \o FilenameFields(filename)

\* The characters of the stems of Universe.
StemText(file_path) ==
    CASE file_path.stem = "album" -> <<"a", "l", "b", "u", "m">>
      [] file_path.stem = "side" -> <<"s", "i", "d", "e">>
      [] file_path.stem = "x" -> <<"x">>
      [] file_path.stem = "y" -> <<"y">>

ExtractFromFilename(file_path) == ExtractFromStem(StemText(file_path))

\* _extract_metadata on what mutagen.File returned: artist, album, track
\* number, title.
ExtractMetadataOf(audio_file, filename) ==
    IF audio_file = NoTags
    THEN ExtractFromStem(filename)
    ELSE LET t == audio_file[1]
         IN <<t.artist, t.album, TrackNumOfTag(t.track_num), t.title>>

ExtractMetadata(file_path) == ExtractMetadataOf(TagsOf(file_path), StemText(file_path))

\* f"{artist} - {album} - {track_num} - {title}"
Canonical(artist, album, track_num, title) ==
    artist \o " - " \o album \o " - " \o track_num \o " - " \o title

\* A bug: an extracted file named by its whole temporary path.
NewFilenameKeepsTempDir(file_path, temp_extracted_files) ==
    IF \E i \in 1..Len(temp_extracted_files) : temp_extracted_files[i] = file_path
    THEN file_path.dir \o "/" \o Name(file_path)
    ELSE LET m == ExtractMetadata(file_path)
         IN Canonical(m[1], m[2], m[3], m[4]) \o file_path.ext

\* new_filename of the COPY loop.
NewFilename(file_path, temp_extracted_files) ==
    IF \E i \in 1..Len(temp_extracted_files) : temp_extracted_files[i] = file_path
    THEN Name(file_path)
    ELSE LET m == ExtractMetadata(file_path)
         IN Canonical(m[1], m[2], m[3], m[4]) \o file_path.ext

\* A bug: the existence test left out.
TargetExistsNever(t, new_filename) == FALSE
\* target_file.exists()
TargetExists(t, new_filename) == new_filename \in DOMAIN t

\* Config has no get_import_log_file: _log_import raises AttributeError
\* inside its try and only prints a warning.
ConfigHasImportLogFile == FALSE
LogImport(l, source_file, target_file) ==
    IF ConfigHasImportLogFile
    THEN Append(l, [source |-> source_file, target |-> target_file])
    ELSE l

\* `response in ['y', 'yes']`
Affirmative(response) == response \in {"y", "yes"}

\* target_dir_name.split("/")
RECURSIVE SplitSlash(_, _, _)
SplitSlash(s, i, cur) ==
    IF i > Len(s) THEN <<cur>>
    ELSE IF s[i] = "/" THEN <<cur>> \o SplitSlash(s, i + 1, "")
    ELSE SplitSlash(s, i + 1, cur \o s[i])
target_parts == SplitSlash(target_dir_name, 1, "")

\* The three validation tests of import_tracks.
InvalidCall ==
    \/ ~source_exists
    \/ Len(target_parts) # 2
    \/ target_parts[1] \notin MusicDirs

\* -------------------------------------------------------------- history
Run == ghost.run
Snapshot(k, prev) ==
    [run |-> k, src0 |-> src, dirs0 |-> dirs, tgt0 |-> tgt,
     tmp_dirs0 |-> tmp_dirs, tmp0 |-> tmp, log0 |-> log,
     entered |-> FALSE, cleanups |-> 0, last_split |-> << >>,
     rename_failed |-> {}, prev |-> prev]

\* --------------------------------------- import_tracks, step by step
\* A bug: the target directory made before the call is validated.
ValidateAfterMkdir ==
    /\ pc = "start"
    /\ dirs' = dirs \cup {target_parts}
    /\ IF InvalidCall
       THEN /\ pc' = "done"
            /\ frame' = [frame EXCEPT !.outcome = "Rejected"]
       ELSE /\ pc' = "mkdir"
            /\ frame' = [frame EXCEPT !.target_path = target_parts]
    /\ UNCHANGED <<parse_vars, input_vars, src, tgt, tmp_dirs, tmp, log, fate, ghost>>

\* lines 404-423: the three validations.
Validate ==
    /\ pc = "start"
    /\ IF InvalidCall
       THEN /\ pc' = "done"
            /\ frame' = [frame EXCEPT !.outcome = "Rejected"]
       ELSE /\ pc' = "mkdir"
            /\ frame' = [frame EXCEPT !.target_path = target_parts]
    /\ UNCHANGED <<parse_vars, input_vars, fs_vars, fate, ghost>>

\* lines 425-429: target_path.mkdir(parents=True, exist_ok=True)
MkTarget ==
    /\ pc = "mkdir"
    /\ dirs' = dirs \cup {frame.target_path}
    /\ pc' = "discover"
    /\ UNCHANGED <<parse_vars, input_vars, src, tgt, tmp_dirs, tmp, log, fate,
                   frame, ghost>>

\* lines 431-451: the CUE pairs of the source tree; the try block is entered.
Discover ==
    /\ pc = "discover"
    /\ frame' = [frame EXCEPT !.cue_pairs = FindCueFiles(src),
                              !.temp_extracted_files = << >>,
                              !.temp_dir = ""]
    /\ ghost' = [ghost EXCEPT !.entered = TRUE]
    /\ pc' = IF FindCueFiles(src) # << >> THEN "confirm_split" ELSE "stage"
    /\ UNCHANGED <<parse_vars, input_vars, fs_vars, fate>>

\* lines 452-469: the listing, the split prompt, tempfile.mkdtemp().
ConfirmSplit ==
    /\ pc = "confirm_split"
    /\ \E response \in {"y", "n"} :
        IF Affirmative(response)
        THEN /\ tmp_dirs' = tmp_dirs \cup {TmpDirOf(Run)}
             /\ frame' = [frame EXCEPT !.response_split = response,
                                       !.temp_dir = TmpDirOf(Run),
                                       !.pair_i = 1]
             /\ pc' = "pair"
        ELSE /\ frame' = [frame EXCEPT !.response_split = response]
             /\ pc' = "stage"
             /\ UNCHANGED tmp_dirs
    /\ UNCHANGED <<parse_vars, input_vars, src, dirs, tgt, tmp, log, fate, ghost>>

\* A bug: split_audio without its availability test.
CheckFfmpegSkipped == TRUE
\* _check_ffmpeg: whether `ffmpeg -version` ran and exited zero.
CheckFfmpeg == ffmpeg_ok

\* lines 471-475 and split_audio 145-148: parse_cue and _check_ffmpeg of the
\* next pair; either raising is caught by the pair's `except Exception`.
PairBegin ==
    /\ pc = "pair"
    /\ frame.pair_i <= Len(frame.cue_pairs)
    /\ LET r == ParseCue(Content(frame.cue_pairs[frame.pair_i].cue_file))
       IN IF ~r.ok
          THEN /\ frame' = [frame EXCEPT !.pair_i = @ + 1]
               /\ pc' = "pair"
               /\ UNCHANGED ghost
          ELSE IF ~CheckFfmpeg
          THEN /\ frame' = [frame EXCEPT !.pair_i = @ + 1]
               /\ pc' = "pair"
               /\ ghost' = [ghost EXCEPT !.last_split =
                               <<[raised |-> TRUE, unavailable |-> TRUE,
                                  tracks |-> r.tracks, calls |-> << >>,
                                  returned |-> << >>]>>]
          ELSE /\ frame' = [frame EXCEPT !.tracks = r.tracks, !.album = r.album,
                                         !.trk_i = 1, !.split_files = << >>,
                                         !.calls = << >>]
               /\ pc' = "split"
               /\ UNCHANGED ghost
    /\ UNCHANGED <<parse_vars, input_vars, fs_vars, fate>>

\* line 493: every pair was handled.
ExtractDone ==
    /\ pc = "pair"
    /\ frame.pair_i > Len(frame.cue_pairs)
    /\ pc' = "stage"
    /\ UNCHANGED <<parse_vars, input_vars, fs_vars, fate, frame, ghost>>

\* split_audio 150-178: one pass of `for track in tracks`.
TranscodeOp(audio_file, k) == "ffmpeg " \o TrackData(audio_file, k)
SplitOutput(temp_dir, track, audio_file) ==
    Path(temp_dir, Fmt02(track.number) \o " - " \o SanitizeFilename(track.title),
         audio_file.ext)
NoArg == [raises |-> FALSE, kind |-> "none", v |-> NoTime]

SplitTrack ==
    /\ pc = "split"
    /\ frame.trk_i <= Len(frame.tracks)
    /\ LET audio_file == frame.cue_pairs[frame.pair_i].audio_file
           track == frame.tracks[frame.trk_i]
           output_file == SplitOutput(frame.temp_dir, track, audio_file)
           ss == ConvertTime(track.start_time)
           to == IF track.end_time # NoTime THEN ConvertTime(track.end_time) ELSE NoArg
           op == TranscodeOp(audio_file, frame.trk_i)
       IN IF ss.raises \/ to.raises
          THEN \* ValueError leaves split_audio; the pair's except catches it
               /\ frame' = [frame EXCEPT !.pair_i = @ + 1]
               /\ pc' = "pair"
               /\ ghost' = [ghost EXCEPT !.last_split =
                               <<[raised |-> TRUE, unavailable |-> FALSE,
                                  tracks |-> frame.tracks, calls |-> frame.calls,
                                  returned |-> << >>]>>]
               /\ UNCHANGED <<tmp, fate>>
          ELSE \E ok \in Outcomes(fate, op) :
               /\ fate' = Remember(fate, op, ok)
               /\ tmp' = IF ok
                         THEN (output_file :> TrackData(audio_file, frame.trk_i)) @@ tmp
                         ELSE tmp
               /\ frame' = [frame EXCEPT
                              !.calls = Append(@, [track |-> frame.trk_i,
                                                   ss |-> ss, to |-> to,
                                                   out |-> output_file, ok |-> ok]),
                              !.split_files = IF ok THEN Append(@, output_file) ELSE @,
                              !.trk_i = @ + 1]
               /\ pc' = "split"
               /\ UNCHANGED ghost
    /\ UNCHANGED <<parse_vars, input_vars, src, dirs, tgt, tmp_dirs, log>>

\* split_audio 180: return split_files.
SplitReturn ==
    /\ pc = "split"
    /\ frame.trk_i > Len(frame.tracks)
    /\ frame' = [frame EXCEPT !.extracted = frame.split_files, !.ren_i = 1]
    /\ ghost' = [ghost EXCEPT !.last_split =
                    <<[raised |-> FALSE, unavailable |-> FALSE,
                       tracks |-> frame.tracks, calls |-> frame.calls,
                       returned |-> frame.split_files]>>]
    /\ pc' = "rename"
    /\ UNCHANGED <<parse_vars, input_vars, fs_vars, fate>>

\* line 481: final_name, less its suffix.
FinalName(track, album) ==
    Canonical(track.performer, album, Fmt02(track.number), track.title)

\* lines 478-484: one pass of `for i, extracted_file in enumerate(extracted)`.
\* Path.rename raises FileNotFoundError when final_name holds a "/" (the
\* directory it names does not exist); the pair's except catches it.
RenameOne ==
    /\ pc = "rename"
    /\ frame.ren_i <= Len(frame.extracted)
    /\ LET extracted_file == frame.extracted[frame.ren_i]
       IN IF frame.ren_i <= Len(frame.tracks)
          THEN LET track == frame.tracks[frame.ren_i]
                   final_path ==
                       Path(frame.temp_dir, FinalName(track, frame.album),
                            extracted_file.ext)
               IN IF Hostile(track.performer) \/ Hostile(frame.album)
                     \/ Hostile(track.title)
                  THEN /\ frame' = [frame EXCEPT !.pair_i = @ + 1]
                       /\ ghost' = [ghost EXCEPT !.rename_failed = @ \cup {extracted_file}]
                       /\ pc' = "pair"
                       /\ UNCHANGED tmp
                  ELSE /\ tmp' = (final_path :> tmp[extracted_file])
                                    @@ Without(tmp, extracted_file)
                       /\ frame' = [frame EXCEPT
                                      !.temp_extracted_files = Append(@, final_path),
                                      !.ren_i = @ + 1]
                       /\ pc' = "rename"
                       /\ UNCHANGED ghost
          ELSE /\ frame' = [frame EXCEPT !.ren_i = @ + 1]
               /\ pc' = "rename"
               /\ UNCHANGED <<tmp, ghost>>
    /\ UNCHANGED <<parse_vars, input_vars, src, dirs, tgt, tmp_dirs, log, fate>>

\* the end of the rename loop: on to the next pair.
PairEnd ==
    /\ pc = "rename"
    /\ frame.ren_i > Len(frame.extracted)
    /\ frame' = [frame EXCEPT !.pair_i = @ + 1]
    /\ pc' = "pair"
    /\ UNCHANGED <<parse_vars, input_vars, fs_vars, fate, ghost>>

\* A bug: the audio files of the CUE pairs left among the regular files.
RegularFilesWithCueAudio(S, cue_pairs) ==
    SelectSeq(Listing(S), LAMBDA f : f.ext \in MusicExtensions)

\* lines 495-518: the regular files of the scan, then the extracted ones.
RegularFiles(S, cue_pairs) ==
    LET cue_audio_files == {cue_pairs[i].audio_file : i \in 1..Len(cue_pairs)}
    IN SelectSeq(Listing(S),
                 LAMBDA f : f.ext \in MusicExtensions /\ f \notin cue_audio_files)

Stage ==
    /\ pc = "stage"
    /\ LET all_files == RegularFiles(src, frame.cue_pairs) \o frame.temp_extracted_files
       IN IF all_files = << >>
          THEN /\ frame' = [frame EXCEPT !.outcome = "NothingToDo"]
               /\ pc' = "cleanup"
          ELSE /\ frame' = [frame EXCEPT !.all_files = all_files, !.file_i = 1,
                                         !.processed_count = 0,
                                         !.processed_files = << >>]
               /\ pc' = "copy"
    /\ UNCHANGED <<parse_vars, input_vars, fs_vars, fate, ghost>>

\* lines 523-555: one pass of `for file_path in all_files`.
CopyOp(file_path) == "copy " \o Name(file_path)

\* A bug: shutil.move in place of shutil.copy2.
SourceAfterMove(S, file_path) == S \ {file_path}
\* shutil.copy2(file_path, target_file) leaves file_path where it is.
SourceAfterCopy(S, file_path) == S
IsTemp(file_path) == file_path.dir # "src"

CopyOne ==
    /\ pc = "copy"
    /\ frame.file_i <= Len(frame.all_files)
    /\ LET file_path == frame.all_files[frame.file_i]
           new_filename == NewFilename(file_path, frame.temp_extracted_files)
       IN IF TargetExists(tgt, new_filename)
          THEN /\ frame' = [frame EXCEPT !.skipped = Append(@, file_path),
                                         !.file_i = @ + 1]
               /\ UNCHANGED <<src, tgt, log, fate>>
          ELSE \E ok \in Outcomes(fate, CopyOp(file_path)) :
               /\ fate' = Remember(fate, CopyOp(file_path), ok)
               /\ IF ok
                  THEN /\ tgt' = (new_filename :>
                                    (IF IsTemp(file_path) THEN tmp[file_path]
                                     ELSE DataOf(file_path))) @@ tgt
                       /\ src' = SourceAfterCopy(src, file_path)
                       /\ log' = LogImport(log, file_path, new_filename)
                       /\ frame' = [frame EXCEPT
                              !.processed_count = @ + 1,
                              !.processed_files =
                                  IF \E j \in 1..Len(frame.temp_extracted_files) :
                                        frame.temp_extracted_files[j] = file_path
                                  THEN @ ELSE Append(@, file_path),
                              !.file_i = @ + 1]
                  ELSE /\ frame' = [frame EXCEPT !.file_i = @ + 1]
                       /\ UNCHANGED <<src, tgt, log>>
    /\ pc' = "copy"
    /\ UNCHANGED <<parse_vars, input_vars, dirs, tmp_dirs, tmp, ghost>>

\* lines 557-560: the loop is over; `if processed_files or cue_pairs`.
CopyDone ==
    /\ pc = "copy"
    /\ frame.file_i > Len(frame.all_files)
    /\ IF frame.processed_files # << >> \/ frame.cue_pairs # << >>
       THEN pc' = "confirm_delete" /\ UNCHANGED frame
       ELSE pc' = "cleanup" /\ frame' = [frame EXCEPT !.outcome = "Completed"]
    /\ UNCHANGED <<parse_vars, input_vars, fs_vars, fate, ghost>>

\* lines 563-565, 588-589: the delete prompt.
ConfirmDelete ==
    /\ pc = "confirm_delete"
    /\ \E response \in {"y", "n"} :
        IF Affirmative(response)
        THEN /\ frame' = [frame EXCEPT !.response_delete = response, !.del_i = 1]
             /\ pc' = "delete_files"
        ELSE /\ frame' = [frame EXCEPT !.response_delete = response,
                                       !.outcome = "Completed"]
             /\ pc' = "cleanup"
    /\ UNCHANGED <<parse_vars, input_vars, fs_vars, fate, ghost>>

UnlinkOp(file_path) == "unlink " \o Name(file_path)

\* lines 569-575: one pass of `for source_file in processed_files`.
DeleteFile ==
    /\ pc = "delete_files"
    /\ frame.del_i <= Len(frame.processed_files)
    /\ LET source_file == frame.processed_files[frame.del_i]
       IN IF source_file \in src
          THEN \E ok \in Outcomes(fate, UnlinkOp(source_file)) :
               /\ fate' = Remember(fate, UnlinkOp(source_file), ok)
               /\ src' = IF ok THEN src \ {source_file} ELSE src
          ELSE UNCHANGED <<src, fate>>
    /\ frame' = [frame EXCEPT !.del_i = @ + 1]
    /\ pc' = "delete_files"
    /\ UNCHANGED <<parse_vars, input_vars, dirs, tgt, tmp_dirs, tmp, log, ghost>>

DeleteFilesDone ==
    /\ pc = "delete_files"
    /\ frame.del_i > Len(frame.processed_files)
    /\ frame' = [frame EXCEPT !.del_i = 1]
    /\ pc' = "delete_pairs"
    /\ UNCHANGED <<parse_vars, input_vars, fs_vars, fate, ghost>>

\* lines 578-580: cue_file.unlink() of the next pair; when it raises, the
\* pair's except is reached and audio_file.unlink() is not.
DeletePairCue ==
    /\ pc = "delete_pairs"
    /\ frame.del_i <= Len(frame.cue_pairs)
    /\ LET cue_file == frame.cue_pairs[frame.del_i].cue_file
       IN IF cue_file \in src
          THEN \E ok \in Outcomes(fate, UnlinkOp(cue_file)) :
               /\ fate' = Remember(fate, UnlinkOp(cue_file), ok)
               /\ src' = IF ok THEN src \ {cue_file} ELSE src
               /\ IF ok
                  THEN pc' = "delete_audio" /\ UNCHANGED frame
                  ELSE pc' = "delete_pairs" /\ frame' = [frame EXCEPT !.del_i = @ + 1]
          ELSE /\ pc' = "delete_pairs"
               /\ frame' = [frame EXCEPT !.del_i = @ + 1]
               /\ UNCHANGED <<src, fate>>
    /\ UNCHANGED <<parse_vars, input_vars, dirs, tgt, tmp_dirs, tmp, log, ghost>>

\* lines 581-585: audio_file.unlink() of the same pair.
DeletePairAudio ==
    /\ pc = "delete_audio"
    /\ LET audio_file == frame.cue_pairs[frame.del_i].audio_file
       IN IF audio_file \in src
          THEN \E ok \in Outcomes(fate, UnlinkOp(audio_file)) :
               /\ fate' = Remember(fate, UnlinkOp(audio_file), ok)
               /\ src' = IF ok THEN src \ {audio_file} ELSE src
          ELSE UNCHANGED <<src, fate>>
    /\ frame' = [frame EXCEPT !.del_i = @ + 1]
    /\ pc' = "delete_pairs"
    /\ UNCHANGED <<parse_vars, input_vars, dirs, tgt, tmp_dirs, tmp, log, ghost>>

DeletePairsDone ==
    /\ pc = "delete_pairs"
    /\ frame.del_i > Len(frame.cue_pairs)
    /\ frame' = [frame EXCEPT !.outcome = "Completed"]
    /\ pc' = "cleanup"
    /\ UNCHANGED <<parse_vars, input_vars, fs_vars, fate, ghost>>

\* lines 591-603, the finally block: unlink every path of
\* temp_extracted_files, then temp_dir.rmdir(), which fails (silently) on a
\* directory that is not empty.  A pending exception then leaves the method.
InDir(t, d) == {q \in DOMAIN t : q.dir = d}
Cleanup ==
    /\ pc = "cleanup"
    /\ LET listed == {frame.temp_extracted_files[i] :
                         i \in 1..Len(frame.temp_extracted_files)}
           kept == [q \in DOMAIN tmp \ listed |-> tmp[q]]
       IN /\ tmp' = kept
          /\ tmp_dirs' = IF frame.temp_dir # "" /\ InDir(kept, frame.temp_dir) = {}
                         THEN tmp_dirs \ {frame.temp_dir} ELSE tmp_dirs
    /\ frame' = [frame EXCEPT !.outcome = IF frame.exc # "" THEN "Raised" ELSE @]
    /\ ghost' = [ghost EXCEPT !.cleanups = @ + 1]
    /\ pc' = "done"
    /\ UNCHANGED <<parse_vars, input_vars, src, dirs, tgt, log, fate>>

\* SIGINT (signal_handler's sys.exit, or KeyboardInterrupt) or any other
\* exception while lines 425-449 run: the try block is not entered yet.
BeforeTry == {"mkdir", "discover"}
InTry == {"confirm_split", "pair", "split", "rename", "stage", "copy",
          "confirm_delete", "delete_files", "delete_pairs", "delete_audio"}

InterruptBeforeTry ==
    /\ pc \in BeforeTry
    /\ frame' = [frame EXCEPT !.exc = "interrupt", !.outcome = "Raised"]
    /\ pc' = "done"
    /\ UNCHANGED <<parse_vars, input_vars, fs_vars, fate, ghost>>

\* A bug: no finally block, the exception leaves the method at once.
InterruptSkipsFinally ==
    /\ pc \in InTry
    /\ frame' = [frame EXCEPT !.exc = "interrupt", !.outcome = "Raised"]
    /\ pc' = "done"
    /\ UNCHANGED <<parse_vars, input_vars, fs_vars, fate, ghost>>

\* The same inside the try block: the exception is re-raised through the
\* finally block.
InterruptInTry ==
    /\ pc \in InTry
    /\ frame' = [frame EXCEPT !.exc = "interrupt"]
    /\ pc' = "cleanup"
    /\ UNCHANGED <<parse_vars, input_vars, fs_vars, fate, ghost>>

\* import_tracks is called again with the same arguments, after an
\* invocation that returned (a rerun after one that raised is not explored).
Rerun ==
    /\ pc = "done"
    /\ frame.outcome # "Raised"
    /\ Run < MaxRuns
    /\ ghost' = Snapshot(Run + 1,
                         <<[src0 |-> ghost.src0,
                            response_split |-> frame.response_split,
                            outcome |-> frame.outcome]>>)
    /\ frame' = InitFrame
    /\ pc' = "start"
    /\ UNCHANGED <<parse_vars, input_vars, fs_vars, fate>>

\* ------------------------------------------------------------------ Spec
TargetSpecs ==
    {<<"collection", "/", "indie">>, <<"collection">>,
     <<"collection", "/", "indie", "/", "x">>, <<"music", "/", "indie">>}

\* Names a file of the target directory can carry before the first run.
PreNames == {"P - Alb - 01 - one.mp3", "P - Alb - 01 - one.flac"}

Init ==
    /\ cue_text = << >> /\ parsed = << >>
    /\ call = NoCall /\ ret = << >>
    /\ target_dir_name \in TargetSpecs
    /\ source_exists \in BOOLEAN
    /\ ffmpeg_ok \in BOOLEAN
    /\ src \in {S \in SUBSET Universe : Cardinality(S) <= MaxFiles}
    /\ album_sheet \in (IF AlbumCue \in src THEN AlbumSheets ELSE {SheetGood})
    /\ y_tags \in (IF FileY \in src THEN {TagsX, NoTags} ELSE {NoTags})
    /\ \E S \in SUBSET PreNames :
          /\ tgt = [n \in S |-> "old"]
          /\ dirs = IF S = {} THEN {} ELSE {<<"collection", "indie">>}
    /\ tmp_dirs = {} /\ tmp = EmptyMap /\ log = << >>
    /\ fate = EmptyMap
    /\ pc = "start"
    /\ frame = InitFrame
    /\ ghost = Snapshot(1, << >>)

Next ==
    \/ Validate \/ MkTarget \/ Discover \/ ConfirmSplit
    \/ PairBegin \/ ExtractDone \/ SplitTrack \/ SplitReturn
    \/ RenameOne \/ PairEnd
    \/ Stage \/ CopyOne \/ CopyDone
    \/ ConfirmDelete \/ DeleteFile \/ DeleteFilesDone
    \/ DeletePairCue \/ DeletePairAudio \/ DeletePairsDone
    \/ Cleanup \/ InterruptBeforeTry \/ InterruptInTry \/ Rerun

Spec == Init /\ [][Next]_vars

\* ------------------------------------------------------------- SpecParse
CueLine ==
    {LnTrack(1), LnTrack(2), LnTitle("t"), LnPerformer("p"),
     LnIndex01(TcA), LnIndex01(TcB), LnIndex00(Tc0), LnRem}

RECURSIVE SeqsUpTo(_, _)
SeqsUpTo(S, n) ==
    IF n = 0 THEN {<< >>}
    ELSE LET shorter == SeqsUpTo(S, n - 1)
         IN shorter \cup {Append(s, x) : s \in {t \in shorter : Len(t) = n - 1}, x \in S}

\* The import pipeline's state while parse_cue alone is exercised.
PipelineIdle ==
    /\ target_dir_name = << >> /\ source_exists = FALSE /\ ffmpeg_ok = FALSE
    /\ album_sheet = << >> /\ y_tags = NoTags
    /\ src = {} /\ dirs = {} /\ tgt = EmptyMap /\ tmp_dirs = {} /\ tmp = EmptyMap
    /\ log = << >> /\ fate = EmptyMap /\ pc = "idle" /\ frame = InitFrame
    /\ ghost = << >>

InitParse ==
    /\ cue_text \in SeqsUpTo(CueLine, MaxLines)
    /\ parsed = << >>
    /\ call = NoCall /\ ret = << >>
    /\ PipelineIdle

CallParseCue ==
    /\ parsed = << >>
    /\ parsed' = <<ParseCue(cue_text)>>
    /\ UNCHANGED <<cue_text, call, ret, input_vars, fs_vars, fate, pc, frame, ghost>>

NextParse == CallParseCue

SpecParse == InitParse /\ [][NextParse]_vars

\* ------------------------------------------------------------- SpecCalls
\* MM:SS:FF with SS in 0..59 and FF in 0..74
Minutes == {0, 1, 59, 60, 61}
TimeCodes == {<<m, sec, f>> : m \in Minutes, sec \in 0..59, f \in 0..74}
\* texts that are no MM:SS:FF: two or four fields, a field that is no
\* integer, a frames field of 75 or more
OtherTimeCodes ==
    {<<m, sec>> : m \in {0, 3}, sec \in {0, 10}}
    \cup {<<h, m, sec, f>> : h \in {0, 1}, m \in {0, 3}, sec \in {0, 10}, f \in {0, 50}}
    \cup {<<3, NaN, 50>>, <<NaN, 10, 50>>, <<3, 10, NaN>>, <<NaN, 10>>}
    \cup {<<m, sec, f>> : m \in {0, 3}, sec \in {0, 10}, f \in 75..99}
\* the characters of a track-number tag, of a file stem
TagChars == {"0", "1", "2", "3", "/", "a"}
NameChars == {"0", "1", " ", "-", "a"}

Calls ==
    {[fn |-> "_convert_time", arg |-> tc] : tc \in TimeCodes \cup OtherTimeCodes}
    \cup {[fn |-> "_extract_metadata", arg |-> t] : t \in SeqsUpTo(TagChars, MaxTagLen)}
    \cup {[fn |-> "_extract_from_filename", arg |-> f] :
             f \in SeqsUpTo(NameChars, MaxNameLen)}
    \cup {[fn |-> "find_cue_files", arg |-> S] : S \in SUBSET Range(DirOrder)}

InitCalls ==
    /\ call \in Calls
    /\ ret = << >>
    /\ cue_text = << >> /\ parsed = << >>
    /\ PipelineIdle

CallConvertTime ==
    /\ call.fn = "_convert_time" /\ ret = << >>
    /\ ret' = <<ConvertTime(call.arg)>>
    /\ UNCHANGED <<cue_text, parsed, call, input_vars, fs_vars, fate, pc, frame, ghost>>

\* _extract_metadata of a file whose tags carry the track number call.arg
CallExtractMetadata ==
    /\ call.fn = "_extract_metadata" /\ ret = << >>
    /\ ret' = <<ExtractMetadataOf(<<[artist |-> "P", album |-> "Alb",
                                     track_num |-> call.arg, title |-> "one"]>>,
                                  <<"x">>)>>
    /\ UNCHANGED <<cue_text, parsed, call, input_vars, fs_vars, fate, pc, frame, ghost>>

\* _extract_from_filename of a file whose stem is call.arg
CallExtractFromFilename ==
    /\ call.fn = "_extract_from_filename" /\ ret = << >>
    /\ ret' = <<ExtractMetadataOf(NoTags, call.arg)>>
    /\ UNCHANGED <<cue_text, parsed, call, input_vars, fs_vars, fate, pc, frame, ghost>>

\* find_cue_files of a directory that holds the files call.arg
CallFindCueFiles ==
    /\ call.fn = "find_cue_files" /\ ret = << >>
    /\ ret' = <<FindCueFiles(call.arg)>>
    /\ UNCHANGED <<cue_text, parsed, call, input_vars, fs_vars, fate, pc, frame, ghost>>

NextCalls ==
    \/ CallConvertTime \/ CallExtractMetadata \/ CallExtractFromFilename
    \/ CallFindCueFiles

SpecCalls == InitCalls /\ [][NextCalls]_vars

\* ================================================================ claims
FsAsAtCall ==
    /\ src = ghost.src0 /\ dirs = ghost.dirs0 /\ tgt = ghost.tgt0
    /\ tmp_dirs = ghost.tmp_dirs0 /\ tmp = ghost.tmp0 /\ log = ghost.log0

\* C1: a call whose source directory does not exist, whose target does not
\* split into exactly two parts, or whose root is no configured music
\* directory ends as Rejected, and the filesystem is as it was when the call
\* was made: no target directory, no copy, no rename, no deletion, no
\* temporary directory, no log entry.
C1_RejectedWithoutMutation ==
    InvalidCall =>
        /\ FsAsAtCall
        /\ (pc = "done" => frame.outcome = "Rejected")

C1_Witness ==
    /\ pc = "done" /\ frame.outcome = "Rejected"
    /\ source_exists /\ Len(target_parts) = 2 /\ target_parts[1] \notin MusicDirs
    /\ AlbumCue \in src /\ FileX \in src

\* C2: once an invocation that entered the pipeline has ended, nothing of
\* its temporary directory is left: no file in it, renamed or not, and not
\* the directory itself.
C2_NoTempLeak ==
    (pc = "done" /\ ghost.entered) =>
        /\ InDir(tmp, TmpDirOf(Run)) = {}
        /\ TmpDirOf(Run) \notin tmp_dirs

C4_NeverOverwrites ==
    [][\A n \in DOMAIN tgt : n \in DOMAIN tgt' /\ tgt'[n] = tgt[n]]_vars

\* a staged file was skipped for a name copied earlier in the same run
C4_Witness ==
    /\ pc = "done" /\ frame.processed_count > 0
    /\ \E i \in 1..Len(frame.skipped) :
          NewFilename(frame.skipped[i], frame.temp_extracted_files)
              \notin DOMAIN ghost.tgt0

\* C5: a second run on the same source set with the same answers, after a
\* first run that completed, copies nothing, leaves every target file and the
\* import log as they are, and skips every staged file (but those whose copy
\* fails now as it failed in the first run).
SameRunAgain ==
    /\ Run > 1
    /\ ghost.prev[1].outcome \in {"Completed", "NothingToDo"}
    /\ ghost.prev[1].src0 = ghost.src0
    /\ frame.response_split \in {"", ghost.prev[1].response_split}

C6_DeclinedSplitKeepsPairs ==
    (frame.response_split = "n") =>
        /\ frame.calls = << >> /\ frame.temp_dir = ""
        /\ TmpDirOf(Run) \notin tmp_dirs
        /\ \A i \in 1..Len(frame.cue_pairs) :
              /\ frame.cue_pairs[i].cue_file \in src
              /\ frame.cue_pairs[i].audio_file \in src

\* C7: the import log gains exactly one entry per file copied in the run,
\* after the earlier entries.
C7_OneLogEntryPerCopy ==
    /\ Len(log) = Len(ghost.log0) + frame.processed_count
    /\ SubSeq(log, 1, Len(ghost.log0)) = ghost.log0

\* C8: unless the delete prompt was answered y or yes, every file the source
\* directory held when the call was made is still there.
C8_SourcesKeptUnlessConfirmed ==
    frame.response_delete \notin {"y", "yes"} => src = ghost.src0

C8_Witness ==
    /\ pc = "done" /\ frame.response_delete = "n"
    /\ frame.processed_count >= 2
    /\ frame.cue_pairs # << >> /\ frame.temp_extracted_files # << >>
    /\ frame.processed_files # << >>

\* C9: split_audio, the transcoder being available, runs the transcoder once
\* per track in declaration order, does not raise, and returns the outputs of
\* the runs that exited zero, in order.
OkOutputs(calls) ==
    LET oks == SelectSeq(calls, LAMBDA c : c.ok)
    IN [i \in 1..Len(oks) |-> oks[i].out]

C9_SplitPartialSuccess ==
    (ghost.last_split # << >> /\ ~ghost.last_split[1].unavailable) =>
        LET r == ghost.last_split[1]
        IN /\ ~r.raised
           /\ Len(r.calls) = Len(r.tracks)
           /\ \A i \in 1..Len(r.calls) : r.calls[i].track = i
           /\ r.returned = OkOutputs(r.calls)

\* C10: parse_cue on a text with N TRACK lines returns N tracks in the order
\* of the TRACK lines, each ending where the next starts and the last with
\* no end; a track starts at zero unless an INDEX 01 line follows its TRACK
\* line, and no other INDEX line sets a start.
TrackLines(lines) == SelectSeq([i \in 1..Len(lines) |-> i],
                               LAMBDA i : lines[i].kw = "TRACK")
\* the INDEX 01 time codes between the k-th TRACK line and the next
Index01Of(lines, k) ==
    LET at == TrackLines(lines)
        last == IF k < Len(at) THEN at[k + 1] - 1 ELSE Len(lines)
    IN {lines[i].tc : i \in {j \in at[k]..last : lines[j].kw = "INDEX 01"}}

C10_ParseTrackOrder ==
    parsed # << >> =>
        LET r == parsed[1]
            at == TrackLines(cue_text)
            N == Len(at)
        IN /\ r.ok
           /\ Len(r.tracks) = N
           /\ \A i \in 1..N :
                 /\ r.tracks[i].number = cue_text[at[i]].n
                 /\ r.tracks[i].end_time =
                       (IF i < N THEN r.tracks[i + 1].start_time ELSE NoTime)
                 /\ IF Index01Of(cue_text, i) = {}
                    THEN r.tracks[i].start_time = <<0, 0, 0>>
                    ELSE r.tracks[i].start_time \in Index01Of(cue_text, i)

\* On every text that is not the empty file the statement of C10 holds.
ParseTrackOrderUnlessEmpty == cue_text # << >> => C10_ParseTrackOrder

\* C11: parse_cue on a text with no TRACK line (the empty file, a file of
\* album-level or unsupported lines only) returns an empty track list and
\* raises nothing.
C11_ZeroTracksParseEmpty ==
    (parsed # << >> /\ TrackLines(cue_text) = << >>) =>
        (parsed[1].ok /\ parsed[1].tracks = << >>)

\* Every text without a TRACK line that is not the empty file parses to an
\* empty track list.
ZeroTracksUnlessEmptyFile == cue_text # << >> => C11_ZeroTracksParseEmpty

\* C12: _convert_time of MM:SS:FF, SS in 0..59 and FF in 0..74, is
\* HH:MM:SS.mmm with HH below 100, MM and SS below 60, mmm in 0..999, and
\* its total milliseconds are (MM*60+SS)*1000 + round(FF/75*1000).
\* FF*1000/75 is never half-way between two integers.
RoundDiv(a, b) == (2 * a + b) \div (2 * b)
TotalMs(v) == ((v[1] * 60 + v[2]) * 60 + v[3]) * 1000 + v[4]

C12_TimeConversionRounds ==
    (call.fn = "_convert_time" /\ call.arg \in TimeCodes /\ ret # << >>) =>
        LET tc == call.arg
            r == ret[1]
        IN /\ ~r.raises /\ r.kind = "hms"
           /\ r.v[1] \in 0..99 /\ r.v[2] \in 0..59 /\ r.v[3] \in 0..59
           /\ r.v[4] \in 0..999
           /\ TotalMs(r.v) = (tc[1] * 60 + tc[2]) * 1000 + RoundDiv(tc[3] * 1000, 75)

\* What does hold: the milliseconds are FF/75*1000 cut off, not rounded.
TimeConversionTruncates ==
    (call.fn = "_convert_time" /\ call.arg \in TimeCodes /\ ret # << >>) =>
        LET tc == call.arg
            r == ret[1]
        IN /\ ~r.raises /\ r.kind = "hms"
           /\ r.v[1] \in 0..99 /\ r.v[2] \in 0..59 /\ r.v[3] \in 0..59
           /\ r.v[4] \in 0..999
           /\ TotalMs(r.v) = (tc[1] * 60 + tc[2]) * 1000 + (tc[3] * 1000) \div 75

\* C13: the track number _extract_metadata returns is two decimal digits,
\* from the tags and from the file name alike: a numeric tag (its "/total"
\* cut off) zero-padded to two digits, "00" for every other tag.
TwoDigits == {Fmt02(n) : n \in 0..99}

C13_TrackNumberTwoDigits ==
    (call.fn \in {"_extract_metadata", "_extract_from_filename"} /\ ret # << >>) =>
        /\ ret[1][3] \in TwoDigits
        /\ call.fn = "_extract_metadata" =>
              ret[1][3] = (IF ParseInt(BeforeChar(call.arg, "/")) = NaN THEN "00"
                           ELSE Fmt02(ParseInt(BeforeChar(call.arg, "/"))))

\* C14: a failure while one track or file is handled keeps no other track
\* or file of the run from being staged and copied: every extracted file
\* still in the temporary directory, but those whose own rename raised, is
\* staged, and every staged file the COPY loop has passed is in the target
\* directory under its name unless its own copy raised.
Staged == {"copy", "confirm_delete", "delete_files", "delete_pairs", "delete_audio"}

ExtractedAreStaged ==
    \A q \in InDir(tmp, frame.temp_dir) \ ghost.rename_failed :
        q \in Range(frame.all_files)

StagedAreCopied ==
    \A j \in 1..Len(frame.all_files) :
        j < frame.file_i =>
            \/ NewFilename(frame.all_files[j], frame.temp_extracted_files) \in DOMAIN tgt
            \/ /\ CopyOp(frame.all_files[j]) \in DOMAIN fate
               /\ ~fate[CopyOp(frame.all_files[j])]

C14_FailuresLocalized ==
    (pc \in Staged /\ frame.exc = "") => (ExtractedAreStaged /\ StagedAreCopied)

\* The COPY loop by itself keeps failures to the file they happen on.
CopyFailuresLocalized == (pc \in Staged /\ frame.exc = "") => StagedAreCopied

\* C15: an invocation the operator cancelled has run the cleanup and has
\* returned to its caller; no exception has left import_tracks.
C15_CancelReturnsNormally ==
    (pc = "done" /\ frame.exc = "interrupt") =>
        (ghost.cleanups = 1 /\ frame.outcome # "Raised")

\* C16: while the outputs of a sheet are renamed, the j-th output renamed so
\* far, which the j-th successful transcoder run wrote from the range of
\* track k, carries the performer, album, number and title of track k.
C16_RenameUsesOwnTrack ==
    pc = "rename" =>
        LET oks == SelectSeq(frame.calls, LAMBDA c : c.ok)
            n == frame.ren_i - 1
            base == Len(frame.temp_extracted_files) - n
        IN \A j \in 1..n :
              LET track == frame.tracks[oks[j].track]
              IN frame.temp_extracted_files[base + j].stem =
                    Canonical(track.performer, frame.album,
                              Fmt02(track.number), track.title)

\* When every transcoder run of the sheet succeeded, each output carries its
\* own track's name.
RenameUsesOwnTrackIfAllSplit ==
    (\A i \in 1..Len(frame.calls) : frame.calls[i].ok) => C16_RenameUsesOwnTrack

\* C17: a source file that is gone was imported: a plain audio file was
\* copied in this run and is in the target directory; a CUE sheet or its
\* album audio belongs to a pair whose split was confirmed, of which at
\* least one track was extracted, and whose extracted tracks are all in the
\* target directory.
Deleting == {"delete_files", "delete_pairs", "delete_audio", "cleanup"}

TracksOfPair(i) ==
    LET r == ParseCue(Content(frame.cue_pairs[i].cue_file))
    IN {q \in Range(frame.temp_extracted_files) :
           /\ q \in DOMAIN tmp
           /\ \E k \in 1..Len(r.tracks) :
                 tmp[q] = TrackData(frame.cue_pairs[i].audio_file, k)}

PairImported(i) ==
    /\ frame.response_split \in {"y", "yes"}
    /\ TracksOfPair(i) # {}
    /\ \A q \in TracksOfPair(i) : Name(q) \in DOMAIN tgt

C17_DeletedOnlyIfImported ==
    pc \in Deleting =>
        \A f \in ghost.src0 \ src :
            \/ /\ f \in Range(frame.processed_files)
               /\ NewFilename(f, frame.temp_extracted_files) \in DOMAIN tgt
            \/ \E i \in 1..Len(frame.cue_pairs) :
                  /\ f \in {frame.cue_pairs[i].cue_file, frame.cue_pairs[i].audio_file}
                  /\ PairImported(i)

\* A plain audio file that is gone was copied in this run.
PlainDeletedOnlyIfCopied ==
    pc \in Deleting =>
        \A f \in ghost.src0 \ src :
            \/ /\ f \in Range(frame.processed_files)
               /\ NewFilename(f, frame.temp_extracted_files) \in DOMAIN tgt
            \/ \E i \in 1..Len(frame.cue_pairs) :
                  f \in {frame.cue_pairs[i].cue_file, frame.cue_pairs[i].audio_file}

\* C18: the delete prompt is reached only after a file was copied in this
\* run or a track of a CUE pair was extracted.
C18_DeletePromptOnlyAfterImport ==
    pc = "confirm_delete" =>
        (frame.processed_count > 0 \/ InDir(tmp, frame.temp_dir) # {})

\* C19: once deletion was confirmed and the deletion loops are through,
\* every copied plain file and both files of every CUE pair are gone, but
\* those whose own unlink raised.
CueAudio == {frame.cue_pairs[i].audio_file : i \in 1..Len(frame.cue_pairs)}

ToDelete ==
    Range(frame.processed_files)
    \cup {frame.cue_pairs[i].cue_file : i \in 1..Len(frame.cue_pairs)}
    \cup CueAudio
GoneOrOwnFailure(f) ==
    f \notin src \/ (UnlinkOp(f) \in DOMAIN fate /\ ~fate[UnlinkOp(f)])

C19_DeleteFailuresLocalized ==
    (pc = "cleanup" /\ frame.response_delete \in {"y", "yes"} /\ frame.exc = "") =>
        \A f \in ToDelete : GoneOrOwnFailure(f)

\* The same for the plain files and the CUE sheets alone.
PlainDeleteFailuresLocalized ==
    (pc = "cleanup" /\ frame.response_delete \in {"y", "yes"} /\ frame.exc = "") =>
        \A f \in ToDelete \ CueAudio : GoneOrOwnFailure(f)

\* C20: the staged files are the audio files of the source directory that
\* are no CUE pair's audio, each once, followed by the renamed extraction
\* outputs; nothing copied in this run holds the album audio of a pair, and
\* whatever holds an extracted track carries the name EXTRACT gave it.
C20_StagedSet ==
    pc \in Staged \cup {"cleanup"} /\ frame.all_files # << >> =>
        LET n == Len(frame.all_files) - Len(frame.temp_extracted_files)
            copied == DOMAIN tgt \ DOMAIN ghost.tgt0
        IN /\ n >= 0
           /\ SubSeq(frame.all_files, n + 1, Len(frame.all_files))
                 = frame.temp_extracted_files
           /\ {frame.all_files[i] : i \in 1..n}
                 = {f \in ghost.src0 : f.ext \in MusicExtensions /\ f \notin CueAudio}
           /\ \A i, j \in 1..n : frame.all_files[i] = frame.all_files[j] => i = j
           /\ \A name \in copied :
                 /\ tgt[name] \notin {DataOf(c) : c \in CueAudio}
                 /\ (\E q \in DOMAIN tmp : tmp[q] = tgt[name]) =>
                       \E q \in Range(frame.temp_extracted_files) :
                           q \in DOMAIN tmp /\ tmp[q] = tgt[name] /\ Name(q) = name

\* a declined pair next to a plain file that was copied, and a confirmed
\* pair whose tracks were copied next to a plain file
C20_Witness ==
    /\ pc = "cleanup" /\ frame.exc = ""
    /\ frame.cue_pairs # << >> /\ frame.processed_files # << >>
    /\ frame.temp_extracted_files # << >>
    /\ \A q \in Range(frame.temp_extracted_files) : Name(q) \in DOMAIN tgt \ DOMAIN ghost.tgt0
    /\ AlbumFlac \in CueAudio /\ AlbumFlac \in src

\* C21: with no transcoder to run, split_audio raises before it handles any
\* track: no transcoder run is made for any track, nothing is written to a
\* temporary directory, and the plain audio files of the run are staged and
\* copied all the same.
TranscoderRuns ==
    {op \in DOMAIN fate :
        \E f \in Universe, k \in 1..MaxLines : op = TranscodeOp(f, k)}

C21_UnavailableAbortsCueBranchOnly ==
    ~ffmpeg_ok =>
        /\ TranscoderRuns = {} /\ frame.calls = << >> /\ tmp = EmptyMap
        /\ ghost.last_split # << >> =>
              /\ ghost.last_split[1].raised /\ ghost.last_split[1].unavailable
              /\ ghost.last_split[1].calls = << >>
        /\ pc \in Staged =>
              /\ Range(frame.all_files)
                    = {f \in ghost.src0 : f.ext \in MusicExtensions /\ f \notin CueAudio}
              /\ StagedAreCopied

C21_Witness ==
    /\ ~ffmpeg_ok /\ pc = "confirm_delete"
    /\ frame.response_split = "y" /\ ghost.last_split # << >>
    /\ frame.cue_pairs # << >> /\ frame.processed_files # << >>

\* C22: _extract_from_filename of a stem that begins with two decimal
\* digits, 00 to 99, and holds " - " returns what is before the first " - "
\* as track number and what is after it as title; of a stem that does not
\* begin with two digits it returns "00" and the whole stem.
TwoDigitStem(f) == Len(f) >= 2 /\ IsDigit(f[1]) /\ IsDigit(f[2])

FilenameHeuristicOn(f, r) ==
    IF TwoDigitStem(f)
    THEN SepAt(f) # 0 =>
            /\ r[3] = Join(SubSeq(f, 1, SepAt(f) - 1))
            /\ r[4] = Join(SubSeq(f, SepAt(f) + 3, Len(f)))
    ELSE r[3] = "00" /\ r[4] = Join(f)

C22_FilenameHeuristic ==
    (call.fn = "_extract_from_filename" /\ ret # << >>) =>
        FilenameHeuristicOn(call.arg, ret[1])

\* The same holds of every stem but those that begin with 00 or with 10 and
\* above.
FilenameHeuristicFrom01To09 ==
    (call.fn = "_extract_from_filename" /\ ret # << >>
     /\ (TwoDigitStem(call.arg) => (call.arg[1] = "0" /\ call.arg[2] # "0"))) =>
        FilenameHeuristicOn(call.arg, ret[1])

\* C23: _convert_time of a text that has not exactly three integer fields,
\* or whose frames field is not in 0..74, raises, and returns nothing that
\* could be handed to the transcoder.
WellFormed(tc) == Len(tc) = 3 /\ IntParsable(tc) /\ tc[3] \in 0..74

C23_MalformedTimeCodeRejected ==
    (call.fn = "_convert_time" /\ ~WellFormed(call.arg) /\ ret # << >>) =>
        ret[1].raises

\* Of the malformed texts, those of three fields with a field that is no
\* integer do raise.
NonIntegerFieldRaises ==
    (call.fn = "_convert_time" /\ Len(call.arg) = 3 /\ ~IntParsable(call.arg)
     /\ ret # << >>) => ret[1].raises

\* C24: both names of an extraction output are sanitized: the name
\* split_audio writes it under is the track number and the sanitized title,
\* and the name it is renamed to is built from the sanitized performer,
\* album and title, so neither holds one of < > : " / \ | ? *.
SplitNameSanitized(extracted_file) ==
    \E t \in Range(frame.tracks) :
        /\ extracted_file.stem = Fmt02(t.number) \o " - " \o SanitizeFilename(t.title)
        /\ ~Hostile(SanitizeFilename(t.title))
        /\ extracted_file.dir = frame.temp_dir

FinalNameSanitized(track) ==
    FinalName(track, frame.album) =
        Canonical(SanitizeFilename(track.performer), SanitizeFilename(frame.album),
                  Fmt02(track.number), SanitizeFilename(track.title))

C24_OutputNamesSanitized ==
    pc = "rename" =>
        \A j \in 1..Len(frame.extracted) :
            j <= Len(frame.tracks) =>
                /\ SplitNameSanitized(frame.extracted[j])
                /\ FinalNameSanitized(frame.tracks[j])

\* The names split_audio writes are sanitized.
SplitNamesSanitized ==
    pc = "rename" =>
        \A j \in 1..Len(frame.extracted) : SplitNameSanitized(frame.extracted[j])

\* C25: find_cue_files pairs each .cue file of the directory at most once,
\* and exactly when the directory holds a .flac, .wav or .ape file: with the
\* file of its own stem whose extension comes first in that order, or, when
\* there is none of its stem, with the first file of the first of these
\* extensions that the directory has a file of.  Every companion is a file
\* of the directory.
ExtRank(e) == CHOOSE i \in 1..Len(AudioExts) : AudioExts[i] = e
GlobPos(f) == CHOOSE i \in 1..Len(DirOrder) : DirOrder[i] = f

C25_FindPairs ==
    (call.fn = "find_cue_files" /\ ret # << >>) =>
        LET S == call.arg
            pairs == ret[1]
            audio == {f \in S : f.ext \in Range(AudioExts)}
            same(c) == {f \in audio : f.stem = c.stem}
        IN /\ \A i \in 1..Len(pairs) :
                 /\ pairs[i].cue_file \in S /\ pairs[i].cue_file.ext = ".cue"
                 /\ pairs[i].audio_file \in audio
           /\ \A i, j \in 1..Len(pairs) :
                 pairs[i].cue_file = pairs[j].cue_file => i = j
           /\ \A c \in {f \in S : f.ext = ".cue"} :
                 (\E i \in 1..Len(pairs) : pairs[i].cue_file = c) <=> audio # {}
           /\ \A i \in 1..Len(pairs) :
                 LET c == pairs[i].cue_file
                     a == pairs[i].audio_file
                 IN IF same(c) # {}
                    THEN /\ a \in same(c)
                         /\ \A f \in same(c) : ExtRank(a.ext) <= ExtRank(f.ext)
                    ELSE \A f \in audio :
                            \/ ExtRank(a.ext) < ExtRank(f.ext)
                            \/ a.ext = f.ext /\ GlobPos(a) <= GlobPos(f)

\* two sheets: one paired with the .ape file of its stem although a .flac
\* file is there, one with the first .flac file, of another stem
C25_Witness ==
    /\ call.fn = "find_cue_files" /\ ret # << >> /\ Len(ret[1]) = 2
    /\ \E i, j \in 1..2 :
          /\ ret[1][i].audio_file.stem # ret[1][i].cue_file.stem
          /\ ret[1][i].audio_file.ext = ".flac"
          /\ ret[1][j].audio_file.stem = ret[1][j].cue_file.stem
          /\ ret[1][j].audio_file.ext = ".ape"

====
